---- MODULE Spec2Model ----
(***************************************************************************)
(* Model of ldsdirectory.py: the DataFetcher (household fetch, calling     *)
(* index, photo cache reconciliation), Member.from_json and the main       *)
(* script, run one or more times against one cache directory.              *)
(*                                                                         *)
(* Python str values are sequences of one-character strings, so that       *)
(* str(), str.replace and f'{id}.jpg' are computed and not assumed.        *)
(* JSON numbers/strings are tagged records (IntV, StrV); Optional values   *)
(* are sequences of length 0 (None) or 1.                                  *)
(***************************************************************************)
EXTENDS Integers, Sequences, FiniteSets, TLC

VARIABLES
    pc,          \* position of the main script (src lines 195-204)
    run,         \* number of the current process run
    prev,        \* how load_member_images of the previous run was called
    user,        \* os.getenv('LDS_USER')
    password,    \* os.getenv('LDS_PASSWORD')
    session,     \* the ldsapi Client: "none", "open", "closed"
    payload,     \* what the remote answers to 'unit-members-and-callings'
    catalogue,   \* the entries the remote may answer 'photo-url' with
    members,     \* DataFetcher._members: str id -> Member
    ids,         \* DataFetcher._ids: list of str
    cacheDir,    \* TRUE iff <output_dir>/cache exists
    cache,       \* os.listdir(cache_dir): set of file names
    truncated,   \* files of the cache whose write was interrupted
    cache0,      \* the listing when load_member_images was entered
    download,    \* argument of load_member_images
    override,    \* argument of load_member_images
    requests,    \* 'photo-url' requests of this run: sequence of id sets
    response,    \* the answer to the 'photo-url' request
    downloads,   \* ids whose photo url was requested with session.get
    err,         \* the exception that ended the run, or "none"
    indexWritten, \* TRUE iff index.html was written by this run
    rendered     \* what the template was given to show of each Member

vars == <<pc, run, prev, user, password, session, payload, catalogue,
          members, ids,
          cacheDir, cache, truncated, cache0, download, override, requests,
          response, downloads, err, indexWritten, rendered>>

-----------------------------------------------------------------------------
(* Bounds *)

MaxId == 2
MaxHouseholds == 2
MaxCallings == 1
MaxPhotos == 2
MaxRuns == 2
MaxName == 4

-----------------------------------------------------------------------------
(* Values *)

\* A JSON / Python scalar: a number, a string, null (None), or the marker of
\* a key that the enclosing object does not carry.
IntV(n) == [t |-> "int", n |-> n, s |-> <<>>]
StrV(s) == [t |-> "str", n |-> 0, s |-> s]
NullJ == [t |-> "null", n |-> 0, s |-> <<>>]
NoKey == [t |-> "nokey", n |-> 0, s |-> <<>>]

DigitChar == <<"0", "1", "2", "3", "4", "5", "6", "7", "8", "9">>

RECURSIVE Digits(_)
Digits(n) ==
    IF n < 10 THEN <<DigitChar[n + 1]>>
    ELSE Digits(n \div 10) \o <<DigitChar[(n % 10) + 1]>>

\* Python str(x)
Str(v) ==
    CASE v.t = "int" -> Digits(v.n)
      [] v.t = "str" -> v.s
      [] OTHER -> <<"N", "o", "n", "e">>

\* Python truthiness
Truthy(v) ==
    CASE v.t = "int" -> v.n # 0
      [] v.t = "str" -> v.s # <<>>
      [] OTHER -> FALSE

JPG == <<".", "j", "p", "g">>

IsPrefix(p, s) == Len(p) <= Len(s) /\ SubSeq(s, 1, Len(p)) = p

\* entry.replace('.jpg', ''): every non-overlapping occurrence, left to right
RECURSIVE Replace(_)
Replace(entry) ==
    IF Len(entry) < Len(JPG) THEN entry
    ELSE IF IsPrefix(JPG, entry)
         THEN Replace(SubSeq(entry, Len(JPG) + 1, Len(entry)))
         ELSE <<Head(entry)>> \o Replace(Tail(entry))

\* f'{id}.jpg'
JpgName(id) == id \o JPG

\* os.path.join(self._cache_dir, name): a path inside the cache directory
CachePath(name) == [t |-> "path", n |-> 0, s |-> name]

SeqsUpTo(S, n) == UNION {[1..k -> S] : k \in 0..n}

-----------------------------------------------------------------------------
(* Member.from_json *)

DescKeys == <<"desc1", "desc2", "desc3", "desc4", "desc5">>

HeadKeys == {"individualId", "memberId", "givenName1", "surname",
             "preferredName", "email", "phone"}

\* data[k] raises KeyError for a key the record does not carry
from_json_raises(data) ==
    \/ \E i \in DOMAIN DescKeys : data[DescKeys[i]] = NoKey
    \/ \E k \in HeadKeys : data.headOfHouse[k] = NoKey

address_parts_of(data) ==
    SelectSeq(<<data.desc1, data.desc2, data.desc3, data.desc4, data.desc5>>,
              Truthy)

from_json(data, calling) ==
    [id |-> data.headOfHouse.individualId,
     member_number |-> data.headOfHouse.memberId,
     given_name |-> data.headOfHouse.givenName1,
     surname |-> data.headOfHouse.surname,
     preferred_name |-> data.headOfHouse.preferredName,
     email |-> data.headOfHouse.email,
     phone |-> data.headOfHouse.phone,
     address_parts |-> address_parts_of(data),
     calling |-> calling,
     image_path |-> NullJ]

-----------------------------------------------------------------------------
(* Member.formatted_name, Member.formatted_calling, Directory.generate *)

Whitespace == {" ", "\t", "\n", "\r"}

\* str.split(','): the parts between the commas, empty parts included
RECURSIVE split(_)
split(s) ==
    IF \A i \in DOMAIN s : s[i] # "," THEN <<s>>
    ELSE LET i == CHOOSE n \in DOMAIN s :
                      s[n] = "," /\ \A m \in 1..(n - 1) : s[m] # ","
         IN  <<SubSeq(s, 1, i - 1)>> \o split(SubSeq(s, i + 1, Len(s)))

RECURSIVE lstrip(_)
lstrip(s) ==
    IF s # <<>> /\ Head(s) \in Whitespace THEN lstrip(Tail(s)) ELSE s

RECURSIVE rstrip(_)
rstrip(s) ==
    IF s # <<>> /\ s[Len(s)] \in Whitespace
    THEN rstrip(SubSeq(s, 1, Len(s) - 1)) ELSE s

\* str.strip()
strip(s) == rstrip(lstrip(s))

reversed(q) == [i \in DOMAIN q |-> q[Len(q) - i + 1]]

\* ' '.join(parts)
RECURSIVE join(_)
join(parts) ==
    IF parts = <<>> THEN <<>>
    ELSE IF Len(parts) = 1 THEN parts[1]
    ELSE parts[1] \o <<" ">> \o join(Tail(parts))

\* a variant that does not strip the parts
formatted_name_unstripped(member) ==
    join(reversed(split(member.preferred_name.s)))

formatted_name(member) ==
    LET parts == split(member.preferred_name.s)
    IN  join(reversed([i \in DOMAIN parts |-> strip(parts[i])]))

NoCalling ==
    StrV(<<"<", "i", ">", "N", "o", " ", "c", "a", "l", "l", "i", "n", "g",
           "<", "/", "i", ">">>)

formatted_calling(member) ==
    IF Truthy(member.calling) THEN member.calling ELSE NoCalling

\* Template(...).render(members=self.members): the properties of each Member
render(reg) ==
    [k \in DOMAIN reg |->
        [formatted_name |-> formatted_name(reg[k]),
         formatted_calling |-> formatted_calling(reg[k])]]

-----------------------------------------------------------------------------
(* DataFetcher.load_members *)

\* the dict built by the loop over data['callings']: the last entry of an
\* identifier wins; the key is the identifier as the payload carries it
ids_to_calling(callings) ==
    LET keys == {callings[i].individualId : i \in DOMAIN callings}
        last(k) == CHOOSE i \in DOMAIN callings :
                       /\ callings[i].individualId = k
                       /\ \A j \in DOMAIN callings :
                              callings[j].individualId = k => j <= i
    IN  [k \in keys |-> callings[last(k)].callingName]

\* dict.get(key): None for a key that is not in the dict
dict_get(d, k) == IF k \in DOMAIN d THEN d[k] ELSE NullJ

calling_of(index, data) ==
    dict_get(index, StrV(Str(data.headOfHouse.individualId)))

load_members_raises(data) ==
    \E i \in DOMAIN data.households : from_json_raises(data.households[i])

new_members(data) ==
    LET index == ids_to_calling(data.callings)
    IN  [i \in DOMAIN data.households |->
            from_json(data.households[i], calling_of(index, data.households[i]))]

\* self._members[str(member.id)] = member, in list order
RECURSIVE put_members(_, _, _)
put_members(reg, ms, i) ==
    IF i > Len(ms) THEN reg
    ELSE LET key == Str(ms[i].id)
         IN  put_members([k \in DOMAIN reg \cup {key} |->
                             IF k = key THEN ms[i] ELSE reg[k]], ms, i + 1)

new_ids(data) ==
    [i \in DOMAIN data.households |->
        Str(data.households[i].headOfHouse.individualId)]

EmptyRegistry == [k \in {} |-> NullJ]

-----------------------------------------------------------------------------
(* Payloads of the remote service *)

Text(c) == StrV(<<c>>)

Household(idv, d) ==
    [headOfHouse |->
        [individualId |-> idv, memberId |-> Text("m"), givenName1 |-> Text("J"),
         surname |-> Text("D"),
         preferredName |-> StrV(<<"D", ",", " ", "J">>),
         email |-> Text("e"), phone |-> Text("5")],
     desc1 |-> d[1], desc2 |-> d[2], desc3 |-> d[3], desc4 |-> d[4],
     desc5 |-> d[5]]

PlainDesc == <<Text("a"), StrV(<<>>), NullJ, Text("d"), StrV(<<>>)>>

\* a record whose head of house carries no memberId
NoMemberId(idv) ==
    [Household(idv, PlainDesc) EXCEPT !.headOfHouse.memberId = NoKey]

\* a record with the given preferredName
Named(idv, name) ==
    [Household(idv, PlainDesc) EXCEPT !.headOfHouse.preferredName = StrV(name)]

NameChars == {"a", "b", ",", " "}

SmithJohn == <<"S", "m", "i", "t", "h", ",", " ", "J", "o", "h", "n">>

DoeJaneQ == <<"D", "o", "e", ",", " ", "J", "a", "n", "e", ",", " ", "Q">>

\* one household, every preferredName up to MaxName characters
NamePayloads ==
    {[households |-> <<Named(IntV(1), name)>>, callings |-> <<>>] :
        name \in SeqsUpTo(NameChars, MaxName) \cup {SmithJohn, DoeJaneQ}}

IdNumbers == 1..MaxId

IdValues == {IntV(i) : i \in IdNumbers} \cup {StrV(Digits(i)) : i \in IdNumbers}

CallingNames == {StrV(<<"B">>), StrV(<<"C">>)}

CallingEntries ==
    [individualId : IdValues, callingName : CallingNames]

\* each desc field: key missing, null, empty, or a text naming its position
DescPatterns ==
    {d \in [1..5 -> {NoKey, NullJ, StrV(<<>>)} \cup
                    {Text(DigitChar[i + 1]) : i \in 1..5}] :
        \A i \in 1..5 : d[i].t = "str" /\ d[i].s # <<>> => d[i] = Text(DigitChar[i + 1])}

\* households with numeric identifiers only, no callings
PhotoPayloads ==
    {[households |-> h, callings |-> <<>>] :
        h \in SeqsUpTo({Household(IntV(i), PlainDesc) : i \in IdNumbers},
                       MaxHouseholds)}

\* identifiers as numbers or strings, with callings; a malformed record
CallingPayloads ==
    {[households |-> h, callings |-> c] :
        h \in SeqsUpTo({Household(v, PlainDesc) : v \in IdValues}
                       \cup {NoMemberId(IntV(1))}, MaxHouseholds),
        c \in SeqsUpTo(CallingEntries, MaxCallings)}

\* one household, every shape of the five desc fields
DescPayloads ==
    {[households |-> <<Household(v, d)>>, callings |-> <<>>] :
        v \in {IntV(1)}, d \in DescPatterns}

-----------------------------------------------------------------------------
(* DataFetcher.load_member_images, _download_images, _download_file *)

\* [entry.replace('.jpg', '') for entry in os.listdir(self._cache_dir)]
downloaded_ids(listing) == {Replace(entry) : entry \in listing}

Range(q) == {q[i] : i \in DOMAIN q}

\* a variant that never consults the cache listing
missing_ids_all(known, listing, ovr) == Range(known)

\* a variant that consults the cache listing under override too
missing_ids_delta(known, listing, ovr) == Range(known) \ downloaded_ids(listing)

\* set(self._ids) - set(downloaded_ids); downloaded_ids is [] under override
missing_ids(known, listing, ovr) ==
    Range(known) \ (IF ovr THEN {} ELSE downloaded_ids(listing))

Url == StrV(<<"u">>)

\* what the remote may answer to 'photo-url'
PhotoEntries ==
    [individualId : {IntV(i) : i \in IdNumbers},
     largeUri : {NoKey, NullJ, StrV(<<>>), Url}]

Responses(entries) == SeqsUpTo(entries, MaxPhotos)

\* a remote that has a photo of individual 1 only
UrlEntries == {[individualId |-> IntV(1), largeUri |-> Url]}

\* a variant that removes the file of an interrupted download
RECURSIVE download_loop_cleanup(_, _, _, _, _)
download_loop_cleanup(data, i, st, failAt, failKind) ==
    IF i > Len(data) THEN st
    ELSE IF data[i].largeUri = NoKey
         THEN [st EXCEPT !.err = "largeUri_key"]
    ELSE IF ~Truthy(data[i].largeUri)
         THEN download_loop_cleanup(data, i + 1, st, failAt, failKind)
    ELSE LET id == Str(data[i].individualId)
             file == JpgName(id)
             got == [st EXCEPT !.downloads = @ \cup {id}]
         IN  IF failAt = i /\ failKind = "get"
             THEN [got EXCEPT !.err = "photo_get"]
             ELSE IF failAt = i
             THEN [got EXCEPT !.cache = @ \ {file},
                              !.truncated = @ \ {file},
                              !.err = "photo_write"]
             ELSE download_loop_cleanup(data, i + 1,
                      [got EXCEPT !.cache = @ \cup {file},
                                  !.truncated = @ \ {file}],
                      failAt, failKind)

\* The loop over the response, from entry i on.  st carries the cache
\* listing, the truncated files, the requests made, the ids whose url was
\* requested and the exception raised.  failAt names the entry whose
\* download fails (0: none): "get" fails before the file is opened, "write"
\* after open(..., 'wb') created the file and before the stream was written
\* completely.
RECURSIVE download_loop(_, _, _, _, _)
download_loop(data, i, st, failAt, failKind) ==
    IF i > Len(data) THEN st
    ELSE IF data[i].largeUri = NoKey
         THEN [st EXCEPT !.err = "largeUri_key"]
    ELSE IF ~Truthy(data[i].largeUri)
         THEN download_loop(data, i + 1, st, failAt, failKind)
    ELSE LET id == Str(data[i].individualId)
             file == JpgName(id)
             got == [st EXCEPT !.downloads = @ \cup {id}]
         IN  IF failAt = i /\ failKind = "get"
             THEN [got EXCEPT !.err = "photo_get"]
             ELSE IF failAt = i
             THEN [got EXCEPT !.cache = @ \cup {file},
                              !.truncated = @ \cup {file},
                              !.err = "photo_write"]
             ELSE download_loop(data, i + 1,
                      [got EXCEPT !.cache = @ \cup {file},
                                  !.truncated = @ \ {file}],
                      failAt, failKind)

\* a variant that asks for the metadata and downloads nothing
download_images_nofetch(ovr, known, st, netOk, data, failAt, failKind) ==
    LET asked == [st EXCEPT !.requests =
                      Append(@, missing_ids(known, st.cache, ovr))]
    IN  IF ~netOk THEN [asked EXCEPT !.err = "metadata_fetch"] ELSE asked

\* a variant that clears the cache directory before an override download
download_images_purge(ovr, known, st, netOk, data, failAt, failKind) ==
    LET asked == [st EXCEPT !.requests =
                      Append(@, missing_ids(known, st.cache, ovr)),
                            !.cache = IF ovr THEN {} ELSE @,
                            !.truncated = IF ovr THEN {} ELSE @]
    IN  IF ~netOk THEN [asked EXCEPT !.err = "metadata_fetch"]
        ELSE download_loop(data, 1, asked, failAt, failKind)

\* _download_images(override): one 'photo-url' request for the missing ids,
\* answered by data unless the request fails, then the loop
download_images(ovr, known, st, netOk, data, failAt, failKind) ==
    LET asked == [st EXCEPT !.requests =
                      Append(@, missing_ids(known, st.cache, ovr))]
    IN  IF ~netOk THEN [asked EXCEPT !.err = "metadata_fetch"]
        ELSE download_loop(data, 1, asked, failAt, failKind)

\* a variant that ignores the download flag
maybe_download_always(dl, ovr, known, st, netOk, data, failAt, failKind) ==
    download_images(ovr, known, st, netOk, data, failAt, failKind)

\* if download: self._download_images(override)
maybe_download(dl, ovr, known, st, netOk, data, failAt, failKind) ==
    IF dl THEN download_images(ovr, known, st, netOk, data, failAt, failKind)
    ELSE st

\* how often the loop at the end of load_member_images assigns the
\* image_path of member k: once for every entry of the listing whose id is k
image_path_writes(reg, listing, k) ==
    IF k \in DOMAIN reg
    THEN Cardinality({entry \in listing : Replace(entry) = k})
    ELSE 0

\* a variant that also rewrites the id of the Member as the registry key
annotate_retype(reg, listing) ==
    [k \in DOMAIN reg |->
        IF k \in downloaded_ids(listing)
        THEN [reg[k] EXCEPT !.image_path = CachePath(JpgName(k)),
                            !.id = StrV(k)]
        ELSE reg[k]]

\* a variant that makes a Member for every listed id the registry lacks
annotate_orphans(reg, listing) ==
    [k \in DOMAIN reg \cup downloaded_ids(listing) |->
        [(IF k \in DOMAIN reg THEN reg[k]
          ELSE from_json(Household(StrV(k), PlainDesc), NullJ))
         EXCEPT !.image_path =
             IF k \in downloaded_ids(listing) THEN CachePath(JpgName(k))
             ELSE @]]

\* the loop at the end of load_member_images: image_path of every member
\* whose id is in the listing
annotate(reg, listing) ==
    [k \in DOMAIN reg |->
        IF k \in downloaded_ids(listing)
        THEN [reg[k] EXCEPT !.image_path = CachePath(JpgName(k))]
        ELSE reg[k]]

-----------------------------------------------------------------------------
(* The cache directory before the first run *)

OddFiles == {<<"1">>, JpgName(JpgName(Digits(MaxId)))}

InitialFiles == {JpgName(Digits(i)) : i \in IdNumbers} \cup OddFiles

Credentials == {NullJ, StrV(<<>>), StrV(<<"x">>)}

-----------------------------------------------------------------------------
(* The program *)

InitWith(payloads, entries, listings, dirs) ==
    /\ pc = "start"
    /\ run = 1
    /\ prev = "none"
    /\ user \in Credentials
    /\ password \in Credentials
    /\ session = "none"
    /\ payload \in payloads
    /\ catalogue = entries
    /\ members = EmptyRegistry
    /\ ids = <<>>
    /\ cache \in listings
    /\ cacheDir \in (IF cache = {} THEN dirs ELSE {TRUE})
    /\ truncated = {}
    /\ cache0 = cache
    /\ download = FALSE
    /\ override = FALSE
    /\ requests = <<>>
    /\ response = <<>>
    /\ downloads = {}
    /\ err = "none"
    /\ indexWritten = FALSE
    /\ rendered = EmptyRegistry

Init == InitWith(PhotoPayloads, PhotoEntries, SUBSET InitialFiles, BOOLEAN)

\* a variant that records the exception and lets the script go on
Raise_and_continue(e) ==
    /\ pc' = "imaged"
    /\ err' = e

Raise(e) ==
    /\ pc' = "aborted"
    /\ err' = e

\* a variant that fails only when both values are missing
DataFetcher_init_both ==
    /\ pc = "start"
    /\ IF ~Truthy(user) /\ ~Truthy(password)
       THEN /\ Raise("credentials")
            /\ UNCHANGED session
       ELSE /\ session' = "open"
            /\ pc' = "constructed"
            /\ UNCHANGED err
    /\ members' = EmptyRegistry
    /\ ids' = <<>>
    /\ UNCHANGED <<run, prev, user, password, payload, catalogue, cacheDir, cache,
                   truncated, cache0, download, override, requests, response,
                   downloads, indexWritten, rendered>>

\* fetcher = DataFetcher(output_dir)
DataFetcher_init ==
    /\ pc = "start"
    /\ IF ~Truthy(user) \/ ~Truthy(password)
       THEN /\ Raise("credentials")
            /\ UNCHANGED session
       ELSE /\ session' = "open"
            /\ pc' = "constructed"
            /\ UNCHANGED err
    /\ members' = EmptyRegistry
    /\ ids' = <<>>
    /\ UNCHANGED <<run, prev, user, password, payload, catalogue, cacheDir, cache,
                   truncated, cache0, download, override, requests, response,
                   downloads, indexWritten, rendered>>

\* fetcher.load_members()
load_members ==
    /\ pc = "constructed"
    /\ \E netOk \in BOOLEAN :
          IF ~netOk
          THEN /\ Raise("households_fetch")
               /\ UNCHANGED <<members, ids>>
          ELSE IF load_members_raises(payload)
          THEN /\ Raise("household_key")
               /\ UNCHANGED <<members, ids>>
          ELSE /\ members' = put_members(members, new_members(payload), 1)
               /\ ids' = new_ids(payload)
               /\ pc' = "loaded"
               /\ UNCHANGED err
    /\ UNCHANGED <<run, prev, user, password, session, payload, catalogue, cacheDir,
                   cache, truncated, cache0, download, override, requests,
                   response, downloads, indexWritten, rendered>>

\* fetcher.load_member_images(download_images, override_images)
load_member_images ==
    /\ pc = "loaded"
    /\ \E dl \in BOOLEAN, ovr \in BOOLEAN, netOk \in BOOLEAN,
          data \in Responses(catalogue), failAt \in 0..MaxPhotos,
          failKind \in {"get", "write"} :
          /\ failAt <= Len(data)
          /\ failAt = 0 => failKind = "get"
          /\ ~dl => netOk /\ data = <<>> /\ failAt = 0
          /\ ~netOk => data = <<>> /\ failAt = 0
          /\ download' = dl
          /\ override' = ovr
          /\ cacheDir' = TRUE
          /\ cache0' = cache
          /\ response' = data
          /\ LET st0 == [cache |-> cache, truncated |-> truncated,
                         requests |-> requests, downloads |-> downloads,
                         err |-> "none"]
                 st == maybe_download(dl, ovr, ids, st0, netOk, data,
                                      failAt, failKind)
             IN  /\ cache' = st.cache
                 /\ truncated' = st.truncated
                 /\ requests' = st.requests
                 /\ downloads' = st.downloads
                 /\ IF st.err # "none"
                    THEN /\ Raise(st.err)
                         /\ UNCHANGED members
                    ELSE /\ members' = annotate(members, st.cache)
                         /\ pc' = "imaged"
                         /\ UNCHANGED err
    /\ UNCHANGED <<run, prev, user, password, session, payload, catalogue, ids,
                   indexWritten, rendered>>

\* fetcher.close()
close ==
    /\ pc = "imaged"
    /\ session' = "closed"
    /\ pc' = "closed"
    /\ UNCHANGED <<run, prev, user, password, payload, catalogue, members, ids, cacheDir,
                   cache, truncated, cache0, download, override, requests,
                   response, downloads, err, indexWritten, rendered>>

\* Directory(fetcher.members).generate() and the write of index.html
generate ==
    /\ pc = "closed"
    /\ \E templateOk \in BOOLEAN :
          IF templateOk
          THEN /\ rendered' = render(members)
               /\ indexWritten' = TRUE
               /\ pc' = "done"
               /\ UNCHANGED err
          ELSE /\ Raise("template")
               /\ UNCHANGED <<indexWritten, rendered>>
    /\ UNCHANGED <<run, prev, user, password, session, payload, catalogue, members, ids,
                   cacheDir, cache, truncated, cache0, download, override,
                   requests, response, downloads>>

\* what 'unit-members-and-callings' may answer in the next run: the same,
\* or the same without its last household
later_payloads(data) ==
    {data} \cup
    IF data.households = <<>> THEN {}
    ELSE {[data EXCEPT !.households = SubSeq(@, 1, Len(@) - 1)]}

\* The process has ended; the script is started again on the same output
\* directory.  Nothing of the process survives but the files.
NextRun ==
    /\ pc \in {"done", "aborted"}
    /\ run < MaxRuns
    /\ run' = run + 1
    /\ payload' \in later_payloads(payload)
    /\ prev' = IF pc = "done" /\ download /\ ~override /\ payload' = payload
                THEN "delta" ELSE "other"
    /\ pc' = "start"
    /\ user' \in Credentials
    /\ password' \in Credentials
    /\ session' = "none"
    /\ members' = EmptyRegistry
    /\ ids' = <<>>
    /\ cache0' = cache
    /\ download' = FALSE
    /\ override' = FALSE
    /\ requests' = <<>>
    /\ response' = <<>>
    /\ downloads' = {}
    /\ err' = "none"
    /\ indexWritten' = FALSE
    /\ rendered' = EmptyRegistry
    /\ UNCHANGED <<catalogue, cacheDir, cache, truncated>>

Next ==
    \/ DataFetcher_init
    \/ load_members
    \/ load_member_images
    \/ close
    \/ generate
    \/ NextRun

Spec == Init /\ [][Next]_vars

\* the same program against payloads that vary the identifiers, the
\* callings and the desc fields of the households
InitMembers ==
    InitWith(CallingPayloads \cup DescPayloads, UrlEntries, {{}}, {TRUE})

SpecMembers == InitMembers /\ [][Next]_vars

\* the same program against single households of every preferredName and
\* a remote that has no photo
InitNames == InitWith(NamePayloads, {}, {{}}, {TRUE})

SpecNames == InitNames /\ [][Next]_vars

-----------------------------------------------------------------------------
(* Properties *)

\* load_member_images has returned in this run
Returned == pc \in {"imaged", "closed", "done"}

\* load_member_images was entered in this run with download = True
Downloading == download

\* load_members has returned in this run
Loaded ==
    \/ pc \in {"loaded", "imaged", "closed", "done"}
    \/ pc = "aborted" /\ err \in {"metadata_fetch", "largeUri_key", "photo_get",
                                 "photo_write", "template"}

HasSuffix(s, p) ==
    Len(p) <= Len(s) /\ SubSeq(s, Len(s) - Len(p) + 1, Len(s)) = p

\* the identifier of a cache entry, by stripping the '.jpg' extension
StripExt(entry) ==
    IF HasSuffix(entry, JPG) THEN SubSeq(entry, 1, Len(entry) - Len(JPG))
    ELSE entry

ListedIds(listing) == {StripExt(entry) : entry \in listing}

One == <<"1">>
Two == <<"2">>

\* C1: a run with download and without override that follows such a run and
\* finds no identifier missing makes no photo-url request and no download.
C1_Idempotence ==
    (run > 1 /\ prev = "delta" /\ Returned /\ download /\ ~override
        /\ ids # <<>> /\ Range(ids) \ ListedIds(cache0) = {})
    => (requests = <<>> /\ downloads = {})

\* C2: after load_member_images returns, a Member has image_path set if and
\* only if its identifier is the name of a cache entry stripped of the '.jpg'
\* extension.
C2_RegistryConsistency ==
    Returned =>
        \A k \in DOMAIN members :
            (members[k].image_path # NullJ) <=> (k \in ListedIds(cache))

\* C3: with download and without override exactly one photo-url request is
\* made, for the known identifiers minus those of the cache listing, and no
\* identifier whose file is in the cache is requested.
C3_DeltaFetch ==
    (Downloading /\ ~override) =>
        /\ Len(requests) = 1
        /\ requests[1] = Range(ids) \ downloaded_ids(cache0)
        /\ \A id \in requests[1] : JpgName(id) \notin cache0

C3_Witness ==
    /\ Downloading /\ ~override
    /\ cache0 = {JpgName(One)}
    /\ Range(ids) = {One, Two}
    /\ requests = <<{Two}>>

\* C4: with download and override the photo-url request covers every known
\* identifier, whatever the cache holds.
C4_Override ==
    (Downloading /\ override) =>
        /\ Len(requests) = 1
        /\ requests[1] = Range(ids)

C4_Witness ==
    /\ Downloading /\ override
    /\ Range(ids) = {One, Two}
    /\ \A id \in Range(ids) : JpgName(id) \in cache0
    /\ requests = <<{One, Two}>>

\* C5: with download = False no request and no download is made, the cache
\* listing is unchanged, and every Member whose file is in the cache has its
\* image_path set to it.
C5_NoDownload ==
    (Returned /\ ~download) =>
        /\ requests = <<>>
        /\ downloads = {}
        /\ cache = cache0
        /\ \A k \in DOMAIN members :
              JpgName(k) \in cache0
                  => members[k].image_path = CachePath(JpgName(k))

C5_Witness ==
    /\ Returned /\ ~download /\ override
    /\ requests = <<>>
    /\ One \in DOMAIN members
    /\ JpgName(One) \in cache0
    /\ members[One].image_path = CachePath(JpgName(One))

\* C6: every household whose identifier, as a string, is the identifier of a
\* calling entry gets that calling name, whether the payload carries
\* identifiers as numbers or as strings; every other household gets no calling.
C6_CallingResolution ==
    Loaded =>
        \A i \in DOMAIN payload.households :
            LET key == Str(payload.households[i].headOfHouse.individualId)
                names == {payload.callings[j].callingName :
                             j \in {n \in DOMAIN payload.callings :
                                 Str(payload.callings[n].individualId) = key}}
            IN  /\ key \in DOMAIN members
                /\ IF names = {} THEN members[key].calling = NullJ
                   ELSE members[key].calling \in names

\* C7: a run that has constructed the session and has ended, normally or by
\* an error, has closed the session.
C7_SessionClosed ==
    (pc \in {"done", "aborted"} /\ session # "none") => session = "closed"

\* C8: after load_member_images(download=True) returns, every identifier the
\* response carried a non-empty largeUri for has its '<id>.jpg' in the cache,
\* and its Member, if any, has image_path set to that file.
C8_DownloadPostcondition ==
    (Returned /\ download) =>
        \A i \in DOMAIN response :
            Truthy(response[i].largeUri) =>
                LET id == Str(response[i].individualId)
                IN  /\ JpgName(id) \in cache
                    /\ id \in DOMAIN members
                          => members[id].image_path = CachePath(JpgName(id))

C8_Witness ==
    /\ Returned /\ download
    /\ \E i \in DOMAIN response :
          /\ Truthy(response[i].largeUri)
          /\ Str(response[i].individualId) = Two
          /\ JpgName(Two) \notin cache0
          /\ JpgName(Two) \in cache
          /\ Two \in DOMAIN members
          /\ members[Two].image_path = CachePath(JpgName(Two))

\* the identifiers the response offers no photo for: every entry of theirs
\* has largeUri empty, null or missing
Unavailable ==
    {Str(response[i].individualId) : i \in DOMAIN response}
        \ {Str(response[i].individualId) :
              i \in {n \in DOMAIN response : Truthy(response[n].largeUri)}}

\* C9: an entry whose largeUri is empty or absent raises no error, causes no
\* download and no cache file, and the other entries of the response are
\* still processed.
C9_EmptyUriSkipped ==
    Downloading =>
        /\ err # "largeUri_key"
        /\ \A id \in Unavailable :
              /\ id \notin downloads
              /\ JpgName(id) \in cache => JpgName(id) \in cache0
        /\ err \notin {"metadata_fetch", "photo_get", "photo_write"} =>
              \A i \in DOMAIN response :
                  Truthy(response[i].largeUri) =>
                      JpgName(Str(response[i].individualId)) \in cache

\* a desc field that is present and not empty
NonEmptyText(v) == v.t = "str" /\ v.s # <<>>

ExpectedParts(h) ==
    SelectSeq(<<h.desc1, h.desc2, h.desc3, h.desc4, h.desc5>>, NonEmptyText)

HasHeadFields(h) == \A k \in HeadKeys : h.headOfHouse[k] # NoKey

\* C10: every household record that carries the head-of-house fields yields
\* a Member with the record's identifier and with address_parts equal to
\* desc1..desc5 without the empty and the absent fields, in order.
C10_Normalizer ==
    (/\ pc \notin {"start", "constructed"}
     /\ err \notin {"credentials", "households_fetch"}
     /\ \A i \in DOMAIN payload.households :
            HasHeadFields(payload.households[i]))
    => \A i \in DOMAIN payload.households :
          LET h == payload.households[i]
              key == Str(h.headOfHouse.individualId)
          IN  (\A j \in DOMAIN payload.households :
                   Str(payload.households[j].headOfHouse.individualId) = key
                       => j = i)
              => /\ key \in DOMAIN members
                 /\ members[key].id = h.headOfHouse.individualId
                 /\ members[key].address_parts = ExpectedParts(h)
                 /\ Len(members[key].address_parts) <= 5

\* C11: when the photo-url request fails the run is aborted: no photo was
\* requested or written, no Member has an image_path, and index.html is not
\* written.
C11_MetadataFetchFatal ==
    err = "metadata_fetch" =>
        /\ pc = "aborted"
        /\ Len(requests) = 1
        /\ downloads = {}
        /\ cache = cache0
        /\ \A k \in DOMAIN members : members[k].image_path = NullJ
        /\ ~indexWritten

C11_Witness ==
    /\ err = "metadata_fetch"
    /\ pc = "aborted"
    /\ One \in DOMAIN members
    /\ JpgName(One) \in cache0
    /\ members[One].image_path = NullJ
    /\ ~indexWritten

\* C12: when the user or the password is unset or empty, construction fails
\* with no session created, and nothing is fetched, downloaded or written.
C12_MissingCredentials ==
    (pc # "start" /\ (~Truthy(user) \/ ~Truthy(password))) =>
        /\ pc = "aborted"
        /\ err = "credentials"
        /\ session = "none"
        /\ members = EmptyRegistry
        /\ ids = <<>>
        /\ requests = <<>>
        /\ downloads = {}
        /\ cache = cache0
        /\ ~indexWritten

C12_Witness ==
    /\ pc = "aborted"
    /\ err = "credentials"
    /\ Truthy(user)
    /\ password = StrV(<<>>)
    /\ session = "none"

\* the errors that _download_images can end with
DownloadErrors == {"metadata_fetch", "largeUri_key", "photo_get", "photo_write"}

\* C13: load_member_images leaves the keys of the registry as they are,
\* whatever the cache lists, and raises nothing but what a download raises:
\* a cache entry with no Member is neither an error nor a new Member.
C13_OrphansIgnored ==
    [][pc = "loaded" =>
          /\ DOMAIN members' = DOMAIN members
          /\ pc' = "aborted" => (download' /\ err' \in DownloadErrors)]_vars

C13_Witness ==
    /\ Returned /\ ~download
    /\ members # EmptyRegistry
    /\ \E entry \in cache0 : Replace(entry) \notin DOMAIN members
    /\ \E entry \in cache0 : Replace(entry) \in DOMAIN members

\* the positions of the commas of a name
CommaAt(s) == {i \in DOMAIN s : s[i] = ","}

\* the position of the j-th comma; 0 before the first part, Len + 1 after
\* the last
Cut(s, j) ==
    IF j = 0 THEN 0
    ELSE IF j > Cardinality(CommaAt(s)) THEN Len(s) + 1
    ELSE CHOOSE i \in CommaAt(s) :
             Cardinality({c \in CommaAt(s) : c < i}) = j - 1

\* the j-th part of a name, without the surrounding blanks
TrimmedPart(s, j) ==
    LET inner == {i \in (Cut(s, j - 1) + 1)..(Cut(s, j) - 1) : s[i] # " "}
    IN  IF inner = {} THEN <<>>
        ELSE SubSeq(s, CHOOSE i \in inner : \A m \in inner : i <= m,
                       CHOOSE i \in inner : \A m \in inner : m <= i)

\* parts j, j - 1, .., 1 with one blank between them
RECURSIVE PartsDownFrom(_, _)
PartsDownFrom(s, j) ==
    IF j = 1 THEN TrimmedPart(s, 1)
    ELSE TrimmedPart(s, j) \o <<" ">> \o PartsDownFrom(s, j - 1)

ExpectedName(s) == PartsDownFrom(s, Cardinality(CommaAt(s)) + 1)

\* C14: the formatted_name of every Member, as computed from the registry and
\* as given to the template, is the comma-separated parts of preferred_name,
\* trimmed, in reverse order, joined by single blanks.
C14_FormattedName ==
    /\ \A k \in DOMAIN members :
          formatted_name(members[k]) = ExpectedName(members[k].preferred_name.s)
    /\ \A k \in DOMAIN rendered :
          /\ k \in DOMAIN members
          /\ rendered[k].formatted_name
                 = ExpectedName(members[k].preferred_name.s)
          /\ members[k].preferred_name.s = SmithJohn
                 => rendered[k].formatted_name
                        = <<"J", "o", "h", "n", " ", "S", "m", "i", "t", "h">>
          /\ members[k].preferred_name.s = DoeJaneQ
                 => rendered[k].formatted_name
                        = <<"Q", " ", "J", "a", "n", "e", " ", "D", "o", "e">>

C14_Witness ==
    /\ pc = "done"
    /\ One \in DOMAIN rendered
    /\ members[One].preferred_name.s = DoeJaneQ
    /\ rendered[One].formatted_name
           = <<"Q", " ", "J", "a", "n", "e", " ", "D", "o", "e">>

\* C15: whatever the cache directory holds, a Member whose image_path is
\* set has a file at exactly that path.
C15_ImagePathExists ==
    \A k \in DOMAIN members :
        members[k].image_path # NullJ => members[k].image_path.s \in cache

C17_PartialPersistence ==
    /\ truncated \subseteq cache
    /\ err = "photo_write" => truncated # {}
    /\ download =>
          \A id \in Range(ids) :
              (JpgName(id) \in truncated /\ id \notin downloads) =>
                  IF override THEN id \in requests[1]
                  ELSE /\ id \notin requests[1]
                       /\ Returned =>
                             members[id].image_path = CachePath(JpgName(id))

C17_Witness ==
    /\ run = 2
    /\ Returned /\ download /\ ~override
    /\ JpgName(One) \in truncated
    /\ One \notin downloads
    /\ requests = <<{Two}>>
    /\ One \in DOMAIN members
    /\ members[One].image_path = CachePath(JpgName(One))

\* C18: once the household fetch has answered, ids holds the stringified
\* head-of-house identifier of every household of the payload, whether or
\* not a Member was constructed for it.
C18_KnownIdsIndependent ==
    (pc \in {"loaded", "imaged", "closed", "done", "aborted"}
        /\ err \notin {"credentials", "households_fetch"}) =>
        Range(ids) =
            {Str(payload.households[i].headOfHouse.individualId) :
                i \in DOMAIN payload.households}

\* C19: no step of any run removes a file from the cache directory, so the
\* cached identifiers never shrink; and whenever load_member_images has
\* returned, every Member whose photo was in the cache when it was entered
\* has its image_path set to that file, whatever the remote answered.
C19_CacheOnlyGrows ==
    /\ [](Returned =>
            \A k \in DOMAIN members :
                JpgName(k) \in cache0 =>
                    /\ JpgName(k) \in cache
                    /\ members[k].image_path = CachePath(JpgName(k)))
    /\ [][/\ cache \subseteq cache'
          /\ downloaded_ids(cache) \subseteq downloaded_ids(cache')
         ]_vars

\* second run, override download: the remote answers for individual 1 with
\* no photo, and the photo cached before stays attached to Member 1
C19_Witness ==
    /\ run = 2
    /\ Returned /\ download /\ override
    /\ JpgName(One) \in cache0
    /\ One \in requests[1]
    /\ response # <<>>
    /\ \A i \in DOMAIN response :
          /\ response[i].individualId = IntV(1)
          /\ response[i].largeUri \in {NullJ, StrV(<<>>)}
    /\ One \in DOMAIN members
    /\ members[One].image_path = CachePath(JpgName(One))

====
